---- MODULE Spec2Model ----
(***************************************************************************)
(* Model of upr-report-mapping.py: the pipeline of main() -- discovery of  *)
(* the sheets that match the reference structure, the criteria filter,     *)
(* the grouping and consolidation, the check against the archive and the   *)
(* append -- with the Smartsheet service as the environment.               *)
(*                                                                         *)
(* Python values are records [k, s, n]: None, a string or a number.  A     *)
(* dict is a function whose DOMAIN is the set of its keys.  A datetime is  *)
(* a number of ticks since 2023-12-31 00:00, a Sunday.                     *)
(***************************************************************************)
EXTENDS Integers, Sequences, FiniteSets, TLC

VARIABLES
    pc,                   \* where main() stands: idle, discover, filter, group, dedup, write, done
    exit,                 \* how the last main() ended: none, return, raise (an unhandled exception)
    now,                  \* datetime.now() of the run, in ticks
    DRY_RUN,              \* the module's DRY_RUN setting for the run
    ref_cols,             \* the reference sheet's column titles
    sheets,               \* the workspace: sheet id -> [cols, rows]
    listing,              \* the sheet ids as Sheets.list_sheets enumerates them
    archive_cols,         \* the archive sheet's column titles
    archive,              \* the archive sheet's rows, oldest first
    matching_sheets,      \* main's matching_sheets (sheet ids)
    records,              \* main's records after step 2
    consolidated_records, \* main's consolidated_records
    archive_keys,         \* main's archive_keys
    effective_key_cols,   \* main's effective_key_cols
    new_rows,             \* main's new_rows; Unbound while the name is not assigned
    hist                  \* what the run did to the service: reads, append calls, inputs of the steps

vars == <<pc, exit, now, DRY_RUN, ref_cols, sheets, listing, archive_cols, archive,
          matching_sheets, records, consolidated_records, archive_keys,
          effective_key_cols, new_rows, hist>>

-----------------------------------------------------------------------------
(* Bounds of the model. *)

\* Ticks of a day: the resolution of the model's clock.
TicksPerDay == 2
\* Significand bits of the model's floating point (binary64 has 53).
MantissaBits == 8
\* Rows of one source sheet.
MaxRows == 2
\* main() runs of one behaviour.
MaxRuns == 2

-----------------------------------------------------------------------------
(* Python values. *)

None == [k |-> "none", s |-> "", n |-> 0]
Str(x) == [k |-> "str", s |-> x, n |-> 0]
Num(i) == [k |-> "num", s |-> "", n |-> i]

\* bool(v): None, '' and 0 are false.
Truthy(v) ==
    CASE v.k = "none" -> FALSE
      [] v.k = "str" -> v.s # ""
      [] v.k = "num" -> v.n # 0

\* d.get(key, default)
Get(d, key, default) == IF key \in DOMAIN d THEN d[key] ELSE default

Abs(i) == IF i < 0 THEN -i ELSE i

RECURSIVE Pow2(_)
Pow2(e) == IF e = 0 THEN 1 ELSE 2 * Pow2(e - 1)

RECURSIVE BitLen(_)
BitLen(m) == IF m = 0 THEN 0 ELSE 1 + BitLen(m \div 2)

\* The nearest float to the integer i, ties to the even significand.
FloatRound(i) ==
    LET m == Abs(i)
        e == BitLen(m) - MantissaBits
    IN  IF e <= 0 THEN i
        ELSE LET unit == Pow2(e)
                 q == m \div unit
                 r == m % unit
                 up == (2 * r > unit) \/ (2 * r = unit /\ q % 2 = 1)
                 mag == (IF up THEN q + 1 ELSE q) * unit
             IN  IF i < 0 THEN -mag ELSE mag

\* The strings float() accepts, among the strings of the model.
NumericText == {"0", "50"}
TextNumber(s) == IF s = "50" THEN 50 ELSE 0

\* float(v) succeeds
FloatOk(v) ==
    CASE v.k = "none" -> FALSE
      [] v.k = "str" -> v.s \in NumericText
      [] v.k = "num" -> TRUE

\* float(v), for a v that float() accepts
Float(v) == FloatRound(IF v.k = "str" THEN TextNumber(v.s) ELSE v.n)

\* a + b on floats
FloatAdd(a, b) == FloatRound(a + b)

-----------------------------------------------------------------------------
(* Dates.  Day 0 is Sunday 2023-12-31; weekday() counts Monday = 0.        *)

Day(d) == d * TicksPerDay
Noon == TicksPerDay \div 2

\* The strings parse_date() accepts, among the strings of the model.
DateText == {"2024-01-03", "2024-01-06", "2024-01-07", "2024-01-07 12:00",
             "2024-01-08", "2024-01-03T08:00:00Z"}
\* The ones parse_date() gives a timezone to.
AwareText == {"2024-01-03T08:00:00Z"}

ParseOk(s) == s \in DateText

parse_date(s) ==
    CASE s = "2024-01-03" -> Day(3)
      [] s = "2024-01-06" -> Day(6)
      [] s = "2024-01-07" -> Day(7)
      [] s = "2024-01-07 12:00" -> Day(7) + Noon
      [] s = "2024-01-08" -> Day(8)
      [] s = "2024-01-03T08:00:00Z" -> Day(3)

weekday(t) == ((t \div TicksPerDay) + 6) % 7

week_start(date_obj) ==
    LET days_since_sunday == (weekday(date_obj) + 1) % 7
    IN  date_obj - Day(days_since_sunday)

\* is_past_week(date_str) at datetime.now() = today: "True", "False", or
\* "TypeError" where the comparison of an aware with a naive datetime raises.
is_past_week(date_str, today) ==
    IF ~Truthy(date_str) THEN "False"
    ELSE IF ~(date_str.k = "str" /\ ParseOk(date_str.s)) THEN "False"
    ELSE IF date_str.s \in AwareText THEN "TypeError"
    ELSE IF parse_date(date_str.s) < week_start(today) THEN "True" ELSE "False"

-----------------------------------------------------------------------------
(* COLUMN_MAP, restricted to the columns the model carries: the key        *)
(* columns, the summed column, the date column, one copied column          *)
(* (Location; Work Order, Start Date, Scope Number, Crew, % of Completion, *)
(* Snapshot Date and Work Request # are copied the same way) and the       *)
(* column with no source.  Each entry is <<destination, source>>.          *)

COLUMN_MAP ==
    << <<"PROMAX", "Units Total Price">>,
       <<"Job Number", "Job #">>,
       <<"Work Release", "Work Release #">>,
       <<"Foreman", "Foreman">>,
       <<"Location", "Location">>,
       <<"Weekly Reference Logged Date", "Weekly Reference Logged Date">>,
       <<"Expected Time of Completion", "">> >>

DestCols == {COLUMN_MAP[i][1] : i \in DOMAIN COLUMN_MAP}
SourceOf(dest) == COLUMN_MAP[CHOOSE i \in DOMAIN COLUMN_MAP : COLUMN_MAP[i][1] = dest][2]

-----------------------------------------------------------------------------
(* Step 2 of main(): the criteria filter.                                  *)

\* The float(promax_val) == 0 test of the second try block.
IsZeroPrice(promax_val) == Float(promax_val) = 0

\* What the body of "for row in rows" does with one row: "keep" (the row is
\* appended to records), "drop" (continue) or "raise" (is_past_week raises).
RowVerdict(row, today) ==
    LET promax_val == Get(row, SourceOf("PROMAX"), None)
        week_ending == Get(row, SourceOf("Weekly Reference Logged Date"), None)
        has_past_date == is_past_week(week_ending, today)
    IN  IF has_past_date = "TypeError" THEN "raise"
        ELSE IF ~Truthy(promax_val) \/ has_past_date = "False" THEN "drop"
        ELSE IF ~FloatOk(promax_val) THEN "drop"
        ELSE IF IsZeroPrice(promax_val) THEN "drop"
        ELSE "keep"

\* out_row: the row under COLUMN_MAP.
OutRow(row) ==
    [dest \in DestCols |->
        IF SourceOf(dest) = "" THEN Str("") ELSE Get(row, SourceOf(dest), Str(""))]

\* The records one sheet adds: the loop over its rows, which an exception
\* ends (the except of the sheet loop keeps what was appended before it).
RECURSIVE FilterSheet(_, _)
FilterSheet(rows, today) ==
    IF rows = <<>> THEN <<>>
    ELSE LET verdict == RowVerdict(Head(rows), today)
         IN  IF verdict = "raise" THEN <<>>
             ELSE (IF verdict = "keep" THEN <<OutRow(Head(rows))>> ELSE <<>>)
                  \o FilterSheet(Tail(rows), today)

\* get_sheet_data: the rows of a sheet as dicts keyed by column title.
get_sheet_data(id) == sheets[id].rows

\* The records of the sheets ids, in order; the sheets in unreadable raise
\* in get_sheet_data and are skipped.
RECURSIVE FilterSheets(_, _, _)
FilterSheets(ids, unreadable, today) ==
    IF ids = <<>> THEN <<>>
    ELSE (IF Head(ids) \in unreadable THEN <<>>
          ELSE FilterSheet(get_sheet_data(Head(ids)), today))
         \o FilterSheets(Tail(ids), unreadable, today)

-----------------------------------------------------------------------------
(* Step 1 of main(): get_matching_sheets.                                  *)

\* Sheets of one page of Sheets.list_sheets (100 in the program).
page_size == 2

\* The lengths all_sheets can have when the loop over the pages ends: the
\* whole listing (the loop ends on a short or an empty page), or the full
\* pages before a page whose request raised.
ListedLengths ==
    {Len(listing)} \cup {j * page_size : j \in 0..(Len(listing) \div page_size)}

\* A faulty column test, which asks for the same columns rather than for at
\* least the reference columns.  C7 fails with it.
ColumnsMatchExact(ref_col_set, this_col_set) == ref_col_set = this_col_set

\* The column test of one sheet.
ColumnsMatch(ref_col_set, this_col_set) == ref_col_set \subseteq this_col_set

\* matching_sheets, for the all_sheets the pages gave and the sheets whose
\* get_sheet raises (unreadable).
get_matching_sheets(all_sheets, unreadable) ==
    SelectSeq(all_sheets,
              LAMBDA id : id \notin unreadable /\ ColumnsMatch(ref_cols, sheets[id].cols))

-----------------------------------------------------------------------------
(* Step 3 of main(): grouping and consolidation.                           *)

unique_key_cols == <<"Job Number", "Foreman", "Work Release">>

\* tuple(rec.get(col, None) for col in cols)
KeyOf(rec, cols) == [i \in DOMAIN cols |-> Get(rec, cols[i], None)]

\* The keys of grouped_records, in the order the dict got them.
RECURSIVE GroupKeys(_, _)
GroupKeys(recs, seen) ==
    IF recs = <<>> THEN <<>>
    ELSE LET key == KeyOf(Head(recs), unique_key_cols)
         IN  IF key \in seen THEN GroupKeys(Tail(recs), seen)
             ELSE <<key>> \o GroupKeys(Tail(recs), seen \cup {key})

\* grouped_records[key]
GroupOf(recs, key) == SelectSeq(recs, LAMBDA r : KeyOf(r, unique_key_cols) = key)

\* sum(float(r.get('PROMAX', 0)) for r in group_records if r.get('PROMAX')):
\* the additions from 0, left to right.  acc is the sum so far.
RECURSIVE SumPromax(_, _)
SumPromax(group_records, acc) ==
    IF group_records = <<>> THEN acc
    ELSE LET v == Get(Head(group_records), "PROMAX", Num(0))
         IN  SumPromax(Tail(group_records),
                       IF Truthy(v) THEN FloatAdd(acc, Float(v)) ELSE acc)

\* The place of a date string in Python's order of strings.
StrRank(s) ==
    CASE s = "" -> 0
      [] s = "2024-01-03" -> 1
      [] s = "2024-01-03T08:00:00Z" -> 2
      [] s = "2024-01-06" -> 3
      [] s = "2024-01-07" -> 4
      [] s = "2024-01-07 12:00" -> 5
      [] s = "2024-01-08" -> 6

\* max(group_records, key=lambda x: x.get('Weekly Reference Logged Date', '')):
\* the first member no other member exceeds.
LatestRecord(group_records) ==
    LET key(r) == StrRank(Get(r, "Weekly Reference Logged Date", Str("")).s)
        i == CHOOSE i \in DOMAIN group_records :
                /\ \A j \in DOMAIN group_records : key(group_records[j]) <= key(group_records[i])
                /\ \A j \in 1..(i - 1) : key(group_records[j]) < key(group_records[i])
    IN  group_records[i]

ConsolidatedRecord(key, group_records) ==
    LET latest_record == LatestRecord(group_records)
    IN  [col \in DestCols |->
            CASE col = "PROMAX" -> Num(SumPromax(group_records, 0))
              [] col = "Job Number" -> key[1]
              [] col = "Foreman" -> key[2]
              [] col = "Work Release" -> key[3]
              [] OTHER -> Get(latest_record, col, Str(""))]

Consolidate(recs) ==
    LET keys == GroupKeys(recs, {})
    IN  [i \in DOMAIN keys |-> ConsolidatedRecord(keys[i], GroupOf(recs, keys[i]))]

-----------------------------------------------------------------------------
(* Step 4 of main(): the check against the archive.                        *)

\* archive_col_mapping.get(col, col)
ArchiveCol(col) ==
    CASE col = "Work Request #" -> "Work Request"
      [] col = "Work Release" -> "Work Release #"
      [] OTHER -> col

\* available_cols
AvailableCols(key_cols) == SelectSeq(key_cols, LAMBDA col : ArchiveCol(col) \in archive_cols)

\* A faulty effective key, which is never narrowed.  C5 fails with it.
EffectiveKeyColsNotNarrowed(key_cols) == key_cols

\* effective_key_cols
EffectiveKeyCols(key_cols) ==
    IF AvailableCols(key_cols) # <<>> THEN AvailableCols(key_cols) ELSE key_cols

\* The key of one archive row.
ArchiveRowKey(row, cols) ==
    [i \in DOMAIN cols |->
        IF ArchiveCol(cols[i]) \in archive_cols THEN row[ArchiveCol(cols[i])] ELSE None]

\* A faulty get_archive_existing_keys, whose failure path still returns
\* keys and the narrowed columns.  C9 fails with it.
get_archive_existing_keys_no_fallback(key_cols, read_ok, bad_rows) ==
    <<{ArchiveRowKey(archive[i], EffectiveKeyCols(key_cols)) : i \in DOMAIN archive},
      EffectiveKeyCols(key_cols)>>

\* get_archive_existing_keys: <<keys, effective_key_cols>>.  read_ok: get_sheet
\* of the archive returned; bad_rows: the archive rows whose processing raises
\* (they are skipped with a warning).
get_archive_existing_keys(key_cols, read_ok, bad_rows) ==
    IF ~read_ok THEN <<{}, key_cols>>
    ELSE <<{ArchiveRowKey(archive[i], EffectiveKeyCols(key_cols)) :
                i \in DOMAIN archive \ bad_rows},
           EffectiveKeyCols(key_cols)>>

\* new_consolidated_rows
NewConsolidatedRows(consolidated, keys, cols) ==
    SelectSeq(consolidated, LAMBDA rec : KeyOf(rec, cols) \notin keys)

-----------------------------------------------------------------------------
(* Step 5 of main(): the append.                                           *)

\* The row the writer builds from one record: a cell for each non-empty
\* value whose archive column exists; the other cells of the row stay empty.
SheetRow(rec) ==
    [acol \in archive_cols |->
        IF \E col \in DOMAIN rec : ArchiveCol(col) = acol /\ Truthy(rec[col])
        THEN rec[CHOOSE col \in DOMAIN rec : ArchiveCol(col) = acol /\ Truthy(rec[col])]
        ELSE None]

new_sheet_rows(rows) == [i \in DOMAIN rows |-> SheetRow(rows[i])]

-----------------------------------------------------------------------------
(* The state of a run, and the steps of main().                            *)

\* new_rows before any assignment to it, and after one.
Unbound == [bound |-> FALSE, rows |-> <<>>]
Bound(rows) == [bound |-> TRUE, rows |-> rows]

NoPrev == [valid |-> FALSE, dry |-> FALSE, exit |-> "none", read |-> "none",
           consolidated |-> <<>>, new_rows |-> Unbound, appended |-> 0,
           start_archive |-> <<>>]

\* hist at the start of the first run.
Hist0 == [runs |-> 0, reads |-> 0, appends |-> 0, appended |-> 0, read |-> "none",
          start_archive |-> <<>>, enumerated |-> <<>>, unreadable |-> {},
          prev |-> NoPrev]

\* The run that ends becomes hist.prev of the next.
Summary ==
    [valid |-> hist.runs > 0, dry |-> DRY_RUN, exit |-> exit, read |-> hist.read,
     consolidated |-> consolidated_records, new_rows |-> new_rows,
     appended |-> hist.appended, start_archive |-> hist.start_archive]

\* main() up to step 1: the token check and the connection.  connected is
\* FALSE where the token is the placeholder or the client cannot be built.
StartRun(dry, connected) ==
    /\ pc \in {"idle", "done"}
    /\ hist.runs < MaxRuns
    /\ DRY_RUN' = dry
    /\ matching_sheets' = <<>>
    /\ records' = <<>>
    /\ consolidated_records' = <<>>
    /\ archive_keys' = {}
    /\ effective_key_cols' = <<>>
    /\ new_rows' = Unbound
    /\ hist' = [Hist0 EXCEPT !.runs = hist.runs + 1, !.start_archive = archive,
                             !.prev = Summary]
    /\ pc' = IF connected THEN "discover" ELSE "done"
    /\ exit' = IF connected THEN "none" ELSE "return"
    /\ UNCHANGED <<now, ref_cols, sheets, listing, archive_cols, archive>>

\* Step 1.  ref_ok: get_sheet of the reference sheet returned; listed: how
\* many sheets the pages gave; unreadable: the sheets whose get_sheet raises.
Discover(ref_ok, listed, unreadable) ==
    /\ pc = "discover"
    /\ IF ref_ok
       THEN /\ matching_sheets' = get_matching_sheets(SubSeq(listing, 1, listed), unreadable)
            /\ hist' = [hist EXCEPT !.enumerated = SubSeq(listing, 1, listed),
                                    !.unreadable =
                                        {id \in unreadable :
                                            \E i \in 1..listed : listing[i] = id}]
            /\ pc' = "filter"
            /\ exit' = exit
       ELSE /\ pc' = "done"
            /\ exit' = "return"
            /\ UNCHANGED <<matching_sheets, hist>>
    /\ UNCHANGED <<now, DRY_RUN, ref_cols, sheets, listing, archive_cols, archive,
                   records, consolidated_records, archive_keys, effective_key_cols,
                   new_rows>>

\* Step 2, to the return on an empty DataFrame.
PullAndFilter(unreadable) ==
    /\ pc = "filter"
    /\ records' = FilterSheets(matching_sheets, unreadable, now)
    /\ pc' = IF records' = <<>> THEN "done" ELSE "group"
    /\ exit' = IF records' = <<>> THEN "return" ELSE exit
    /\ UNCHANGED <<now, DRY_RUN, ref_cols, sheets, listing, archive_cols, archive,
                   matching_sheets, consolidated_records, archive_keys,
                   effective_key_cols, new_rows, hist>>

\* Step 3.
Group ==
    /\ pc = "group"
    /\ consolidated_records' = Consolidate(records)
    /\ pc' = "dedup"
    /\ UNCHANGED <<exit, now, DRY_RUN, ref_cols, sheets, listing, archive_cols, archive,
                   matching_sheets, records, archive_keys, effective_key_cols,
                   new_rows, hist>>

\* Step 4, to the test of new_rows after it.  new_rows is assigned only
\* where new_consolidated_rows is not empty; the test of an unassigned
\* new_rows raises UnboundLocalError, which nothing catches.
CheckArchive(read_ok, bad_rows) ==
    /\ pc = "dedup"
    /\ LET got == get_archive_existing_keys(unique_key_cols, read_ok, bad_rows)
           new_consolidated_rows == NewConsolidatedRows(consolidated_records, got[1], got[2])
       IN  /\ archive_keys' = got[1]
           /\ effective_key_cols' = got[2]
           /\ new_rows' = IF new_consolidated_rows # <<>>
                          THEN Bound(new_consolidated_rows) ELSE new_rows
    /\ hist' = [hist EXCEPT !.reads = hist.reads + 1,
                            !.read = IF ~read_ok THEN "fail"
                                     ELSE IF bad_rows # {} THEN "rows skipped" ELSE "ok"]
    /\ pc' = IF new_rows'.bound /\ new_rows'.rows # <<>> THEN "write" ELSE "done"
    /\ exit' = IF ~new_rows'.bound THEN "raise"
               ELSE IF new_rows'.rows = <<>> THEN "return" ELSE exit
    /\ UNCHANGED <<now, DRY_RUN, ref_cols, sheets, listing, archive_cols, archive,
                   matching_sheets, records, consolidated_records>>

\* A faulty step 5, which appends in a dry run too.  C10 fails with it.
ArchiveOperationIgnoringDryRun(sheet_ok, written) ==
    /\ pc = "write"
    /\ IF ~sheet_ok
       THEN UNCHANGED <<archive, hist>>
       ELSE /\ archive' = archive \o SubSeq(new_sheet_rows(new_rows.rows), 1, written)
            /\ hist' = [hist EXCEPT !.appends = hist.appends + 1, !.appended = written]
    /\ pc' = "done"
    /\ exit' = "return"
    /\ UNCHANGED <<now, DRY_RUN, ref_cols, sheets, listing, archive_cols,
                   matching_sheets, records, consolidated_records, archive_keys,
                   effective_key_cols, new_rows>>

\* Step 5.  sheet_ok: get_sheet of the archive returned; written: how many
\* of the rows add_rows appended (fewer than all: the call raised).
ArchiveOperation(sheet_ok, written) ==
    /\ pc = "write"
    /\ IF DRY_RUN \/ ~sheet_ok
       THEN UNCHANGED <<archive, hist>>
       ELSE /\ archive' = archive \o SubSeq(new_sheet_rows(new_rows.rows), 1, written)
            /\ hist' = [hist EXCEPT !.appends = hist.appends + 1, !.appended = written]
    /\ pc' = "done"
    /\ exit' = "return"
    /\ UNCHANGED <<now, DRY_RUN, ref_cols, sheets, listing, archive_cols,
                   matching_sheets, records, consolidated_records, archive_keys,
                   effective_key_cols, new_rows>>

-----------------------------------------------------------------------------
(* The inputs of the model.                                                *)

SeqsUpTo(S, n) == UNION {[1..k -> S] : k \in 0..n}

SrcCols == {"Job #", "Foreman", "Work Release #", "Units Total Price",
            "Weekly Reference Logged Date", "Location"}

\* A source row: a cell for each column of its sheet (an empty cell holds None).
SrcRow(cols, job, foreman, wr, price, date, loc) ==
    [c \in cols |->
        CASE c = "Job #" -> job
          [] c = "Foreman" -> foreman
          [] c = "Work Release #" -> wr
          [] c = "Units Total Price" -> price
          [] c = "Weekly Reference Logged Date" -> date
          [] c = "Location" -> loc]

\* 2024-01-10 00:00, a Wednesday.
Wednesday == Day(10)

\* The sheets of the pipeline's workspace: one with every column, one
\* without the Work Release # column, one that lacks required columns.
RefCols == {"Job #", "Foreman", "Units Total Price", "Weekly Reference Logged Date"}
NoReleaseCols == SrcCols \ {"Work Release #"}

\* A sheet with every column holds rows with and without a Work Release;
\* a sheet without the column holds a row of a past week and one of this week.
PipelineRows(cols) ==
    IF "Work Release #" \in cols
    THEN {SrcRow(cols, Str("J1"), Str("A"), Str("W1"), Num(100), Str("2024-01-03"), Str("L1")),
          SrcRow(cols, Str("J1"), Str("A"), None, Num(50), Str("2024-01-03"), Str("L1"))}
    ELSE {SrcRow(cols, Str("J1"), Str("A"), None, Num(100), date, Str("L1")) :
              date \in {Str("2024-01-03"), Str("2024-01-08")}}

PipelineSheets ==
    {[cols |-> cols, rows |-> rows] :
        cols \in {SrcCols}, rows \in SeqsUpTo(PipelineRows(SrcCols), MaxRows)}
    \cup {[cols |-> cols, rows |-> rows] :
        cols \in {NoReleaseCols}, rows \in SeqsUpTo(PipelineRows(NoReleaseCols), MaxRows)}
    \cup {[cols |-> {"Foreman", "Location"}, rows |-> <<>>]}

\* The archive sheets: the PROMAX column and any of the three key columns.
ArchiveKeyCols == {"Job Number", "Foreman", "Work Release #"}
ArchiveColSets == {{"PROMAX"} \cup ks : ks \in SUBSET ArchiveKeyCols}

\* Rows the archive holds before the first run.
MaxArchiveRows == 1
ArchiveRows(cols) ==
    {[c \in cols |->
        CASE c = "PROMAX" -> Num(100)
          [] c = "Job Number" -> Str("J1")
          [] c = "Foreman" -> Str("A")
          [] c = "Work Release #" -> wr] : wr \in {None, Str("W1")}}

Init ==
    /\ pc = "idle"
    /\ exit = "none"
    /\ now = Wednesday
    /\ DRY_RUN = FALSE
    /\ ref_cols = RefCols
    /\ listing = <<1>>
    /\ \E sheet \in PipelineSheets : sheets = [id \in {1} |-> sheet]
    /\ archive_cols \in ArchiveColSets
    /\ archive \in SeqsUpTo(ArchiveRows(archive_cols), MaxArchiveRows)
    /\ matching_sheets = <<>>
    /\ records = <<>>
    /\ consolidated_records = <<>>
    /\ archive_keys = {}
    /\ effective_key_cols = <<>>
    /\ new_rows = Unbound
    /\ hist = Hist0

SheetIds == {listing[i] : i \in DOMAIN listing}

StartRunStep == \E dry \in BOOLEAN, connected \in BOOLEAN : StartRun(dry, connected)

DiscoverStep ==
    \E ref_ok \in BOOLEAN, listed \in ListedLengths, unreadable \in SUBSET SheetIds :
        Discover(ref_ok, listed, unreadable)

PullAndFilterStep ==
    \E unreadable \in SUBSET {matching_sheets[i] : i \in DOMAIN matching_sheets} :
        PullAndFilter(unreadable)

CheckArchiveStep ==
    \E read_ok \in BOOLEAN, bad_rows \in {{}} \cup {{i} : i \in DOMAIN archive} :
        CheckArchive(read_ok, IF read_ok THEN bad_rows ELSE {})

ArchiveOperationStep ==
    \E sheet_ok \in BOOLEAN, written \in 0..Len(new_rows.rows) :
        ArchiveOperation(sheet_ok, written)

Next ==
    \/ StartRunStep
    \/ DiscoverStep
    \/ PullAndFilterStep
    \/ Group
    \/ CheckArchiveStep
    \/ ArchiveOperationStep

Spec == Init /\ [][Next]_vars

-----------------------------------------------------------------------------
(* The criteria filter on its own: step 2 over one matching sheet, for     *)
(* every kind of price and date cell and for times of day of "now".        *)

FilterPrices == {None, Str(""), Str("abc"), Str("0"), Str("50"), Num(0), Num(-50), Num(100)}
FilterDates == {None, Str("bad")} \cup {Str(d) : d \in DateText}
FilterRows ==
    {SrcRow(SrcCols, Str("J1"), Str("A"), Str("W1"), price, date, Str("L1")) :
        price \in FilterPrices, date \in FilterDates}

\* Sunday 2024-01-07 and Wednesday 2024-01-10, at each tick of the day.
FilterNows == {Day(d) + t : d \in {7, 10}, t \in 0..(TicksPerDay - 1)}

\* The state of a run that found sheet 1 matching.
AfterDiscovery(sheet) ==
    /\ exit = "none"
    /\ DRY_RUN = FALSE
    /\ ref_cols = RefCols
    /\ listing = <<1>>
    /\ sheets = [id \in {1} |-> sheet]
    /\ archive_cols = {"PROMAX"} \cup ArchiveKeyCols
    /\ archive = <<>>
    /\ matching_sheets = <<1>>
    /\ consolidated_records = <<>>
    /\ archive_keys = {}
    /\ effective_key_cols = <<>>
    /\ new_rows = Unbound
    /\ hist = [Hist0 EXCEPT !.runs = 1, !.enumerated = <<1>>]

InitFilter ==
    /\ pc = "filter"
    /\ now \in FilterNows
    /\ records = <<>>
    /\ \E rows \in SeqsUpTo(FilterRows, MaxRows) : AfterDiscovery([cols |-> SrcCols, rows |-> rows])

NextFilter == PullAndFilterStep

SpecFilter == InitFilter /\ [][NextFilter]_vars

-----------------------------------------------------------------------------
(* The consolidation on its own: step 3 over the records the filter keeps  *)
(* of one sheet.                                                           *)

\* Rows of the sheet that is consolidated.
MaxGroupRows == 3

GroupRows ==
    {SrcRow(SrcCols, Str("J1"), Str("A"), wr, price, date, loc) :
        wr \in {None, Str("W1")},
        price \in {Num(1), Num(50), Num(100), Num(256)},
        date \in {Str("2024-01-03"), Str("2024-01-06")},
        loc \in {Str("L1"), Str("L2")}}

InitGroup ==
    /\ pc = "group"
    /\ now = Wednesday
    /\ \E rows \in SeqsUpTo(GroupRows, MaxGroupRows) :
          /\ rows # <<>>
          /\ AfterDiscovery([cols |-> SrcCols, rows |-> rows])
          /\ records = FilterSheet(rows, now)

NextGroup == Group

SpecGroup == InitGroup /\ [][NextGroup]_vars

-----------------------------------------------------------------------------
(* The discovery on its own: step 1 over workspaces of several sheets.     *)

\* Sheets of the workspace.
MaxSheets == 3

MatchColSets == {RefCols, SrcCols, RefCols \ {"Foreman"}, {"Location"}}

InitMatch ==
    /\ pc = "discover"
    /\ exit = "none"
    /\ now = Wednesday
    /\ DRY_RUN = FALSE
    /\ ref_cols \in {RefCols, SrcCols}
    /\ \E n \in 0..MaxSheets :
          /\ listing = [i \in 1..n |-> i]
          /\ \E cols \in [1..n -> MatchColSets] :
                sheets = [id \in 1..n |-> [cols |-> cols[id], rows |-> <<>>]]
    /\ archive_cols = {"PROMAX"} \cup ArchiveKeyCols
    /\ archive = <<>>
    /\ matching_sheets = <<>>
    /\ records = <<>>
    /\ consolidated_records = <<>>
    /\ archive_keys = {}
    /\ effective_key_cols = <<>>
    /\ new_rows = Unbound
    /\ hist = [Hist0 EXCEPT !.runs = 1]

NextMatch == DiscoverStep

SpecMatch == InitMatch /\ [][NextMatch]_vars

-----------------------------------------------------------------------------
(* The claims.                                                             *)

RecordSet(recs) == {recs[i] : i \in DOMAIN recs}

\* C2: every row the criteria filter retains has a monetary value that
\* parses as a number and is strictly greater than 0.
C2_RetainedPricePositive ==
    \A rec \in RecordSet(records) :
        FloatOk(rec["PROMAX"]) /\ Float(rec["PROMAX"]) > 0

\* 00:00 of the most recent Sunday at or before today.
SundayMidnight(today) ==
    LET day == today \div TicksPerDay
    IN  Day(day - (day % 7))

\* C3: a retained row's reference date parses and is strictly earlier than
\* 00:00 of the most recent Sunday at or before now, at every time of day
\* of now; a row dated on that Sunday is not retained.
C3_RetainedBeforeSundayMidnight ==
    \A rec \in RecordSet(records) :
        LET date == rec["Weekly Reference Logged Date"]
        IN  /\ date.k = "str"
            /\ ParseOk(date.s)
            /\ parse_date(date.s) < SundayMidnight(now)

Orderings(n) == {f \in [1..n -> 1..n] : \A i, j \in 1..n : f[i] = f[j] => i = j}

\* The PROMAX of the consolidated record of a key.
TotalOf(consolidated, key) ==
    LET i == CHOOSE i \in DOMAIN consolidated :
                 KeyOf(consolidated[i], unique_key_cols) = key
    IN  consolidated[i]["PROMAX"].n

KeysOf(recs) == {KeyOf(recs[i], unique_key_cols) : i \in DOMAIN recs}

\* C6: the aggregator emits exactly one record per distinct Group Key of
\* the filtered rows, and the record's PROMAX is the same for every
\* permutation of the rows.
C6_OneRecordPerKeyTotalOrderFree ==
    pc = "dedup" =>
        /\ KeysOf(consolidated_records) = KeysOf(records)
        /\ Cardinality(KeysOf(records)) = Len(consolidated_records)
        /\ \A f \in Orderings(Len(records)) :
              LET permuted == [i \in DOMAIN records |-> records[f[i]]]
              IN  \A key \in KeysOf(records) :
                     TotalOf(Consolidate(permuted), key) = TotalOf(consolidated_records, key)

ArchiveGroupKey(row) == ArchiveRowKey(row, unique_key_cols)

NoDuplicateKeys(rows) ==
    \A i, j \in DOMAIN rows : ArchiveGroupKey(rows[i]) = ArchiveGroupKey(rows[j]) => i = j

HasAllKeyCols == ArchiveKeyCols \subseteq archive_cols

\* The previous run was live, read the archive and appended every record
\* it selected.
PrevLiveComplete ==
    /\ hist.prev.valid
    /\ ~hist.prev.dry
    /\ hist.prev.read = "ok"
    /\ hist.prev.exit = "return"
    /\ hist.prev.new_rows.bound
    /\ hist.prev.appended = Len(hist.prev.new_rows.rows)

\* C1: after a live run that read the archive and appended all its new
\* records, a second run over the same source data that reads the archive
\* finds zero new records.  Stated for an archive that has the three key
\* columns.
C1_SecondRunFindsNothing ==
    (/\ HasAllKeyCols
     /\ PrevLiveComplete
     /\ hist.read = "ok"
     /\ consolidated_records = hist.prev.consolidated)
        => new_rows.rows = <<>>

\* C4: from an archive in which no two records share a Group Key, a live
\* run that reads the archive leaves no two records with the same Group
\* Key, and the records it found are still there, unchanged.  Stated for an
\* archive that has the three key columns.
C4_NoDuplicateGroupKeys ==
    (/\ HasAllKeyCols
     /\ hist.read = "ok"
     /\ NoDuplicateKeys(hist.start_archive))
        => /\ NoDuplicateKeys(archive)
           /\ SubSeq(archive, 1, Len(hist.start_archive)) = hist.start_archive

\* The key columns whose archive-side column the archive has.
PresentKeyCols == SelectSeq(unique_key_cols, LAMBDA col : ArchiveCol(col) \in archive_cols)

ArchiveWasRead == hist.read \in {"ok", "rows skipped"}

AgreesOn(rec, row, cols) ==
    \A i \in DOMAIN cols :
        rec[cols[i]] = (IF ArchiveCol(cols[i]) \in archive_cols
                        THEN row[ArchiveCol(cols[i])] ELSE None)

C8_EarlyExitClean ==
    /\ exit # "raise"
    /\ (pc = "done" /\ hist.runs > 0 /\ records = <<>>) =>
          hist.reads = 0 /\ hist.appends = 0
    /\ (pc = "done" /\ new_rows.rows = <<>>) => hist.appends = 0

\* C9: when the read of the archive fails the run goes on with an empty
\* key set, the full key and every consolidated record as new.
C9_ReadFailureKeepsAll ==
    hist.read = "fail" =>
        /\ archive_keys = {}
        /\ effective_key_cols = unique_key_cols
        /\ new_rows = Bound(consolidated_records)
        /\ exit # "raise"
        /\ pc = "write" \/ (pc = "done" /\ exit = "return")

\* C9's case: the read failed on an archive that holds a record of the run.
C9_Witness ==
    /\ hist.read = "fail"
    /\ pc = "write"
    /\ \E rec \in RecordSet(consolidated_records), i \in DOMAIN archive :
          AgreesOn(rec, archive[i], unique_key_cols)

\* The previous run was a dry run over the same records and the same
\* archive, and this run's read of the archive went the same way.
PrevDrySameInputs ==
    /\ hist.prev.valid
    /\ hist.prev.dry
    /\ ~DRY_RUN
    /\ hist.prev.read # "none"
    /\ hist.prev.read = hist.read
    /\ hist.read # "rows skipped"
    /\ hist.prev.consolidated = consolidated_records
    /\ hist.prev.start_archive = hist.start_archive

\* C10: a dry run issues no append and leaves the archive as it found it;
\* it selects the records a live run over the same inputs selects and
\* appends; a run issues at most one append.
C10_DryRunFrame ==
    /\ DRY_RUN => hist.appends = 0 /\ archive = hist.start_archive
    /\ hist.appends <= 1
    /\ PrevDrySameInputs =>
          /\ new_rows = hist.prev.new_rows
          /\ (hist.appends = 1 /\ hist.appended = Len(new_rows.rows)) =>
                archive = hist.start_archive \o new_sheet_rows(hist.prev.new_rows.rows)

\* C10's case: a live run appended what the dry run before it had selected.
C10_Witness ==
    /\ PrevDrySameInputs
    /\ hist.prev.exit = "return"
    /\ hist.prev.new_rows.rows # <<>>
    /\ hist.appends = 1
    /\ archive = hist.start_archive \o new_sheet_rows(hist.prev.new_rows.rows)

\* The greatest raw date value among the members of a key's group.
GreatestDate(recs, key) ==
    LET group == GroupOf(recs, key)
        rank(r) == StrRank(Get(r, "Weekly Reference Logged Date", Str("")).s)
        i == CHOOSE i \in DOMAIN group : \A j \in DOMAIN group : rank(group[j]) <= rank(group[i])
    IN  group[i]["Weekly Reference Logged Date"]

\* Two members of one group carry the same date value and differ in a
\* field that is copied from the latest member.
DateTie(recs) ==
    \E i, j \in DOMAIN recs :
        /\ KeyOf(recs[i], unique_key_cols) = KeyOf(recs[j], unique_key_cols)
        /\ recs[i]["Weekly Reference Logged Date"] = recs[j]["Weekly Reference Logged Date"]
        /\ recs[i]["Weekly Reference Logged Date"] =
              GreatestDate(recs, KeyOf(recs[i], unique_key_cols))
        /\ recs[i]["Location"] # recs[j]["Location"]

\* C11: the set of consolidated records is the same for every permutation
\* of the filtered rows, the fields copied from the latest member included,
\* also when members of a group tie on the date value; the date of a
\* consolidated record is the greatest raw date value of its group.
C11_ConsolidationOrderFree ==
    pc = "dedup" =>
        /\ \A i \in DOMAIN consolidated_records :
              consolidated_records[i]["Weekly Reference Logged Date"] =
                 GreatestDate(records, KeyOf(consolidated_records[i], unique_key_cols))
        /\ \A f \in Orderings(Len(records)) :
              LET permuted == [i \in DOMAIN records |-> records[f[i]]]
              IN  RecordSet(Consolidate(permuted)) = RecordSet(consolidated_records)

====
